---- MODULE Spec2Model ----
(***************************************************************************)
(* Model of vlbiplanobs/stations.py: the Station / SelectedStation records *)
(* and the Stations registry (an insertion-ordered dict of stations plus   *)
(* a cached tuple of its keys).                                            *)
(*                                                                         *)
(* Python objects live in `heap` (a sequence of station records; a         *)
(* reference is an index into it).  A Python dict is a sequence of         *)
(* <<key, value>> pairs with distinct keys, in insertion order.  Python    *)
(* positions are 0-based, TLA+ sequences 1-based.                          *)
(***************************************************************************)
EXTENDS Integers, Sequences, FiniteSets, TLC

VARIABLES heap,     \* station objects: heap[ref] is the object's fields
          regs,     \* the Stations objects of the application
          last,     \* the last registry operation: arguments, outcome
          lastSet,  \* the last successful `registry[key].selected = v`
          ctor,     \* arguments the station under test was constructed with
          out,      \* the last station query and its outcome
          catalog,  \* the sections of the catalog file
          loaded    \* outcome of get_stations_from_configfile

vars == <<heap, regs, last, lastSet, ctor, out, catalog, loaded>>

(***************************************************************************)
(* Bounds                                                                  *)
(***************************************************************************)
MaxInit == 2        \* longest list handed to Stations(name, stations)
MaxIdx == 3         \* integer keys range over -MaxIdx..MaxIdx
MaxTimes == 3       \* longest sequence of observing times
MaxSections == 3    \* most sections in a catalog file

(***************************************************************************)
(* Python dict (insertion ordered) and tuple                               *)
(***************************************************************************)
DictKeys(d) == [i \in 1..Len(d) |-> d[i][1]]

DictValues(d) == [i \in 1..Len(d) |-> d[i][2]]

DictHas(d, k) == \E i \in 1..Len(d) : d[i][1] = k

DictIndex(d, k) == CHOOSE i \in 1..Len(d) : d[i][1] = k

\* d[k] for a key that is present (callers test DictHas and raise KeyError)
DictGet(d, k) == d[DictIndex(d, k)][2]

\* d[k] = v: an existing key keeps its position, a new key goes last
DictSet(d, k, v) ==
    IF DictHas(d, k) THEN [d EXCEPT ![DictIndex(d, k)] = <<k, v>>]
                     ELSE Append(d, <<k, v>>)

\* d.__delitem__(k) for a key that is present
DictDel(d, k) ==
    [i \in 1..(Len(d) - 1) |-> IF i < DictIndex(d, k) THEN d[i] ELSE d[i + 1]]

\* variant: an explicit bounds check that rejects negative positions
TupleInRange_nonneg(t, i) == 0 <= i /\ i < Len(t)

\* t[i] on a tuple: 0-based, negative i counts from the end, else IndexError
TupleInRange(t, i) == (0 <= i /\ i < Len(t)) \/ (i < 0 /\ -Len(t) <= i)

TupleIndex(t, i) == IF i >= 0 THEN t[i + 1] ELSE t[Len(t) + i + 1]

SeqToSet(s) == {s[i] : i \in 1..Len(s)}

(***************************************************************************)
(* Station, SelectedStation                                                *)
(***************************************************************************)
\* min_elevation arrives as a bare number (unit "") or as a Quantity
Station_init(name, codename, network, freqs_sefds, min_elevation, fullname, all_networks, country, diameter, real_time) ==
    [codename     |-> codename,
     network      |-> network,
     freqs_sefds  |-> freqs_sefds,
     min_elev     |-> IF min_elevation.unit = ""
                      THEN [val |-> min_elevation.val, unit |-> "deg"]
                      ELSE min_elevation,
     fullname     |-> IF fullname = "None" THEN name ELSE fullname,
     all_networks |-> IF all_networks = "None" THEN network ELSE all_networks,
     country      |-> country,
     diameter     |-> diameter,
     real_time    |-> real_time,
     selected     |-> TRUE]

SelectedStation_init(name, codename, network, freqs_sefds, min_elevation, fullname, all_networks, country, diameter, real_time, isselected) ==
    [Station_init(name, codename, network, freqs_sefds, min_elevation,
                  fullname, all_networks, country, diameter, real_time)
        EXCEPT !.selected = isselected]

codename(h, ref) == h[ref].codename

bands(h, ref) == DictKeys(h[ref].freqs_sefds)

sefds(h, ref) == h[ref].freqs_sefds

min_elevation(h, ref) == h[ref].min_elev

has_band(h, ref, band) == band \in SeqToSet(bands(h, ref))

\* variant: dict.get with a default instead of a subscript
sefd_default(h, ref, band) ==
    IF DictHas(h[ref].freqs_sefds, band)
    THEN [exc |-> "none", ret |-> DictGet(h[ref].freqs_sefds, band)]
    ELSE [exc |-> "none", ret |-> 0]

sefd(h, ref, band) ==
    IF DictHas(h[ref].freqs_sefds, band)
    THEN [exc |-> "none", ret |-> DictGet(h[ref].freqs_sefds, band)]
    ELSE [exc |-> "KeyError", ret |-> 0]

\* np.where(elevations >= min_elevation): the 0-based positions, ascending
RECURSIVE np_where_ge(_, _, _)
np_where_ge(elevations, limit, pos) ==
    IF elevations = <<>> THEN <<>>
    ELSE (IF Head(elevations) >= limit THEN <<pos>> ELSE <<>>)
         \o np_where_ge(Tail(elevations), limit, pos + 1)

\* variant: a strict comparison, elevations > min_elevation
is_visible_strict(h, ref, elevations) ==
    np_where_ge(elevations, min_elevation(h, ref).val + 1, 0)

\* the elevations are what observer.altaz(obs_times, target).alt returned
is_visible(h, ref, elevations) ==
    np_where_ge(elevations, min_elevation(h, ref).val, 0)

selected(h, ref) == h[ref].selected

\* variant: the setter checks the type and stores nothing
selected_setter_nostore(h, ref, isselected) ==
    IF ~isselected.isbool THEN [exc |-> "AssertionError", heap |-> h]
    ELSE [exc |-> "none", heap |-> h]

\* the setter of SelectedStation.selected; isselected is [isbool, b]
selected_setter(h, ref, isselected) ==
    IF ~isselected.isbool THEN [exc |-> "AssertionError", heap |-> h]
    ELSE [exc |-> "none", heap |-> [h EXCEPT ![ref].selected = isselected.b]]

(***************************************************************************)
(* Stations: the registry                                                  *)
(***************************************************************************)
\* the names bound at module level in stations.py: its imports (lines 1-8)
\* and its three classes; the module never binds the name `stations`
ModuleGlobals ==
    {"configparser", "resources", "np", "u", "coord", "ascii", "Time",
     "Observer", "Station", "SelectedStation", "Stations"}

\* a slot that holds no Stations object
NoReg == [exists |-> FALSE, name |-> "", stations |-> <<>>, keys |-> <<>>]

\* the loop of Stations.__init__: the assert fails on a repeated codename
RECURSIVE Stations_init_loop(_, _, _)
Stations_init_loop(h, d, lst) ==
    IF lst = <<>> THEN [exc |-> "none", d |-> d]
    ELSE IF DictHas(d, codename(h, Head(lst)))
         THEN [exc |-> "AssertionError", d |-> d]
         ELSE Stations_init_loop(h, DictSet(d, codename(h, Head(lst)), Head(lst)),
                                 Tail(lst))

Stations_init(h, name, lst) ==
    LET r == Stations_init_loop(h, <<>>, lst)
    IN  IF r.exc # "none" THEN [exc |-> r.exc, reg |-> NoReg]
        ELSE [exc |-> "none",
              reg |-> [exists |-> TRUE, name |-> name, stations |-> r.d,
                       keys |-> DictKeys(r.d)]]

stations(reg) == DictValues(reg.stations)

number_of_stations(reg) == Len(stations(reg))

keys(reg) == reg.keys

len(reg) == Len(reg.stations)

contains(reg, item) == DictHas(reg.stations, item)

\* variant: the key cache is not refreshed
add_stale(h, reg, a_station) ==
    LET d == DictSet(reg.stations, codename(h, a_station), a_station)
    IN  [exc  |-> "none",
         warn |-> DictHas(reg.stations, codename(h, a_station)),
         reg  |-> [reg EXCEPT !.stations = d]]

add(h, reg, a_station) ==
    LET d == DictSet(reg.stations, codename(h, a_station), a_station)
    IN  [exc  |-> "none",
         warn |-> DictHas(reg.stations, codename(h, a_station)),
         reg  |-> [reg EXCEPT !.stations = d, !.keys = DictKeys(d)]]

\* a key of registry[...] is an int or a str
IntKey(i) == [isint |-> TRUE, i |-> i, s |-> ""]

StrKey(s) == [isint |-> FALSE, i |-> 0, s |-> s]

getitem(reg, key) ==
    IF key.isint
    THEN IF ~TupleInRange(keys(reg), key.i) THEN [exc |-> "IndexError", ret |-> 0]
         ELSE IF ~DictHas(reg.stations, TupleIndex(keys(reg), key.i))
              THEN [exc |-> "KeyError", ret |-> 0]
              ELSE [exc |-> "none",
                    ret |-> DictGet(reg.stations, TupleIndex(keys(reg), key.i))]
    ELSE IF ~DictHas(reg.stations, key.s) THEN [exc |-> "KeyError", ret |-> 0]
         ELSE [exc |-> "none", ret |-> DictGet(reg.stations, key.s)]

\* registry[key] = value, for a str key; the key is not compared with
\* value.codename
setitem(reg, key, value) ==
    LET d == DictSet(reg.stations, key, value)
    IN  [exc |-> "none", reg |-> [reg EXCEPT !.stations = d, !.keys = DictKeys(d)]]

\* self.keys[key] subscripts the bound method Stations.keys, not the tuple
\* self._keys: a method object has no __getitem__
MethodSubscript(i) == "TypeError"

\* variant: the key cache is not refreshed after the deletion
delitem_stale(reg, key) ==
    IF key.isint THEN [exc |-> MethodSubscript(key.i), reg |-> reg]
    ELSE IF ~DictHas(reg.stations, key.s) THEN [exc |-> "KeyError", reg |-> reg]
         ELSE [exc |-> "none",
               reg |-> [reg EXCEPT !.stations = DictDel(reg.stations, key.s)]]

\* del registry[key]; an exception leaves before the refresh of _keys
delitem(reg, key) ==
    IF key.isint THEN [exc |-> MethodSubscript(key.i), reg |-> reg]
    ELSE IF ~DictHas(reg.stations, key.s) THEN [exc |-> "KeyError", reg |-> reg]
         ELSE LET d == DictDel(reg.stations, key.s)
              IN  [exc |-> "none",
                   reg |-> [reg EXCEPT !.stations = d, !.keys = DictKeys(d)]]

\* the loop of stations_with_band over self.stations
RECURSIVE stations_with_band_loop(_, _, _, _)
stations_with_band_loop(h, antennas, sts, band) ==
    IF sts = <<>> THEN antennas
    ELSE stations_with_band_loop(h,
             IF has_band(h, Head(sts), band) THEN add(h, antennas, Head(sts)).reg
                                             ELSE antennas,
             Tail(sts), band)

\* `stations.Stations(...)` looks the name `stations` up in the module globals
stations_with_band(h, reg, band, output_network_name) ==
    LET outname == IF output_network_name = "None" THEN "Stations@" \o band
                   ELSE output_network_name
    IN  IF "stations" \notin ModuleGlobals
        THEN [exc |-> "NameError", ret |-> NoReg]
        ELSE [exc |-> "none",
              ret |-> stations_with_band_loop(h, Stations_init(h, outname, <<>>).reg,
                                              stations(reg), band)]

(***************************************************************************)
(* The application's objects                                               *)
(***************************************************************************)
Deg(n) == [val |-> n, unit |-> "deg"]

\* three stations built by the application; the second is a distinct
\* object with the codename of the first
HeapInit ==
    << SelectedStation_init("EFLSBERG", "Ef", "EVN",
                            << <<"18cm", 19>>, <<"21cm", 20>> >>, Deg(20),
                            "Effelsberg", "None", "Germany", "100 m", TRUE, TRUE),
       SelectedStation_init("EFLSBERG_2", "Ef", "EVN",
                            << <<"21cm", 25>> >>, Deg(20),
                            "None", "None", "Germany", "100 m", FALSE, TRUE),
       SelectedStation_init("WSTRBORK", "Wb", "EVN",
                            << <<"18cm", 40>> >>, Deg(20),
                            "Westerbork", "EVN, e-EVN", "Netherlands", "25 m",
                            TRUE, TRUE) >>

\* the two station objects of the sharing scenario
HeapShare == << HeapInit[1], HeapInit[3] >>

Obj == 1..Len(heap)

Codes == {"Ef", "Wb"}

Bands == {"18cm", "21cm", "6cm"}

Reg == {1, 2}

MainReg == {1}

\* lists of at most MaxInit station references
RECURSIVE SeqsUpTo(_, _)
SeqsUpTo(S, n) ==
    IF n = 0 THEN {<<>>}
    ELSE SeqsUpTo(S, n - 1) \cup
         {Append(q, x) : q \in {p \in SeqsUpTo(S, n - 1) : Len(p) = n - 1}, x \in S}

KeyInputs == {IntKey(i) : i \in (-MaxIdx)..MaxIdx} \cup {StrKey(c) : c \in Codes \cup {"On"}}

NoKey == StrKey("")

NoLast ==
    [op |-> "init", reg |-> 0, key |-> NoKey, obj |-> 0, val |-> FALSE,
     band |-> "", outname |-> "", lst |-> <<>>, exc |-> "none", warn |-> FALSE,
     ret |-> 0, pre |-> NoReg, retreg |-> NoReg]

NoSet == [reg |-> 0, obj |-> 0, val |-> FALSE]

NoCtor == [freqs_sefds |-> <<>>, min_elevation |-> Deg(0)]

NoOut == [op |-> "init", band |-> "", elevations |-> <<>>, exc |-> "none",
          ret |-> 0, seq |-> <<>>]

NoLoad == [done |-> FALSE, exc |-> "none", reg |-> NoReg]

(***************************************************************************)
(* Registry operations                                                     *)
(***************************************************************************)
Init ==
    /\ heap = HeapInit
    /\ regs = [r \in Reg |-> NoReg]
    /\ last = NoLast
    /\ lastSet = NoSet
    /\ ctor = NoCtor
    /\ out = NoOut
    /\ catalog = <<>>
    /\ loaded = NoLoad

\* registry r = Stations(name, lst)
Construct(r) ==
    /\ ~regs[r].exists
    /\ \E lst \in SeqsUpTo(Obj, MaxInit) :
         LET res == Stations_init(heap, "EVN", lst)
         IN  /\ regs' = [regs EXCEPT ![r] = res.reg]
             /\ last' = [NoLast EXCEPT !.op = "init_stations", !.reg = r,
                                       !.lst = lst, !.exc = res.exc,
                                       !.pre = regs[r]]
    /\ UNCHANGED <<heap, lastSet, ctor, out, catalog, loaded>>

Add(r) ==
    /\ regs[r].exists
    /\ \E o \in Obj :
         LET res == add(heap, regs[r], o)
         IN  /\ regs' = [regs EXCEPT ![r] = res.reg]
             /\ last' = [NoLast EXCEPT !.op = "add", !.reg = r, !.obj = o,
                                       !.exc = res.exc, !.warn = res.warn,
                                       !.pre = regs[r]]
    /\ UNCHANGED <<heap, lastSet, ctor, out, catalog, loaded>>

GetItem(r, K) ==
    /\ regs[r].exists
    /\ \E key \in K :
         LET res == getitem(regs[r], key)
         IN  last' = [NoLast EXCEPT !.op = "getitem", !.reg = r, !.key = key,
                                    !.exc = res.exc, !.ret = res.ret,
                                    !.pre = regs[r]]
    /\ UNCHANGED <<heap, regs, lastSet, ctor, out, catalog, loaded>>

SetItem(r) ==
    /\ regs[r].exists
    /\ \E k \in Codes, o \in Obj :
         LET res == setitem(regs[r], k, o)
         IN  /\ regs' = [regs EXCEPT ![r] = res.reg]
             /\ last' = [NoLast EXCEPT !.op = "setitem", !.reg = r,
                                       !.key = StrKey(k), !.obj = o,
                                       !.exc = res.exc, !.pre = regs[r]]
    /\ UNCHANGED <<heap, lastSet, ctor, out, catalog, loaded>>

DelItem(r) ==
    /\ regs[r].exists
    /\ \E key \in KeyInputs :
         LET res == delitem(regs[r], key)
         IN  /\ regs' = [regs EXCEPT ![r] = res.reg]
             /\ last' = [NoLast EXCEPT !.op = "delitem", !.reg = r, !.key = key,
                                       !.exc = res.exc, !.pre = regs[r]]
    /\ UNCHANGED <<heap, lastSet, ctor, out, catalog, loaded>>

StationsWithBand(r) ==
    /\ regs[r].exists
    /\ \E band \in Bands, outname \in {"None", "subset"} :
         LET res == stations_with_band(heap, regs[r], band, outname)
         IN  last' = [NoLast EXCEPT !.op = "stations_with_band", !.reg = r,
                                    !.band = band, !.outname = outname,
                                    !.exc = res.exc, !.retreg = res.ret,
                                    !.pre = regs[r]]
    /\ UNCHANGED <<heap, regs, lastSet, ctor, out, catalog, loaded>>

Next ==
    \E r \in MainReg :
        \/ Construct(r)
        \/ Add(r)
        \/ GetItem(r, KeyInputs)
        \/ SetItem(r)
        \/ DelItem(r)
        \/ StationsWithBand(r)

Spec == Init /\ [][Next]_vars

(***************************************************************************)
(* Two registries sharing station objects                                  *)
(***************************************************************************)
BoolArg(b) == [isbool |-> TRUE, b |-> b]

\* a value that is not a bool, e.g. the int 1
NonBoolArg == [isbool |-> FALSE, b |-> FALSE]

\* the keys the application reaches a station through
ShareKeys == {StrKey(c) : c \in Codes \cup {"On"}} \cup {IntKey(0)}

InitShare ==
    /\ heap = HeapShare
    /\ regs = [r \in Reg |-> NoReg]
    /\ last = NoLast
    /\ lastSet = NoSet
    /\ ctor = NoCtor
    /\ out = NoOut
    /\ catalog = <<>>
    /\ loaded = NoLoad

\* the application's statement `registry[key].selected = v`
SetSelected(r) ==
    /\ regs[r].exists
    /\ \E key \in ShareKeys, v \in {BoolArg(TRUE), BoolArg(FALSE), NonBoolArg} :
         LET got == getitem(regs[r], key)
             res == selected_setter(heap, got.ret, v)
         IN  IF got.exc # "none"
             THEN /\ last' = [NoLast EXCEPT !.op = "set_selected", !.reg = r,
                                            !.key = key, !.exc = got.exc,
                                            !.pre = regs[r]]
                  /\ UNCHANGED <<heap, lastSet>>
             ELSE /\ heap' = res.heap
                  /\ last' = [NoLast EXCEPT !.op = "set_selected", !.reg = r,
                                            !.key = key, !.obj = got.ret,
                                            !.val = v.b, !.exc = res.exc,
                                            !.pre = regs[r]]
                  /\ lastSet' = IF res.exc = "none"
                                THEN [reg |-> r, obj |-> got.ret, val |-> v.b]
                                ELSE lastSet
    /\ UNCHANGED <<regs, ctor, out, catalog, loaded>>

NextShare ==
    \E r \in Reg :
        \/ Construct(r)
        \/ Add(r)
        \/ SetItem(r)
        \/ GetItem(r, ShareKeys)
        \/ SetSelected(r)

SpecShare == InitShare /\ [][NextShare]_vars

(***************************************************************************)
(* One station and its queries                                             *)
(***************************************************************************)
\* the SEFD mappings a station is constructed with
SefdInputs ==
    {<<>>} \cup
    {<< <<b, v>> >> : b \in {"18cm", "21cm"}, v \in {19, 20}} \cup
    {q \in {<< <<b, v>>, <<c, w>> >> : b \in {"18cm", "21cm"}, c \in {"18cm", "21cm"},
                                       v \in {19, 20}, w \in {19, 20}} :
        q[1][1] # q[2][1]}

\* min_elevation as a bare number or as a Quantity in degrees
MinElevInputs == {[val |-> 20, unit |-> ""], Deg(20), Deg(15), Deg(25)}

\* elevations (degrees) the sky-geometry provider may return
Elevs == {10, 20, 25, 30}

InitStation ==
    /\ \E fs \in SefdInputs, me \in MinElevInputs :
         /\ ctor = [freqs_sefds |-> fs, min_elevation |-> me]
         /\ heap = << Station_init("EFLSBERG", "Ef", "EVN", fs, me, "None", "None",
                                   "", "", FALSE) >>
    /\ regs = [r \in Reg |-> NoReg]
    /\ last = NoLast
    /\ lastSet = NoSet
    /\ out = NoOut
    /\ catalog = <<>>
    /\ loaded = NoLoad

IsVisible ==
    /\ \E elevations \in SeqsUpTo(Elevs, MaxTimes) :
         out' = [NoOut EXCEPT !.op = "is_visible", !.elevations = elevations,
                              !.seq = is_visible(heap, 1, elevations)]
    /\ UNCHANGED <<heap, regs, last, lastSet, ctor, catalog, loaded>>

BandsQuery ==
    /\ out' = [NoOut EXCEPT !.op = "bands", !.seq = bands(heap, 1)]
    /\ UNCHANGED <<heap, regs, last, lastSet, ctor, catalog, loaded>>

HasBand ==
    /\ \E band \in Bands :
         out' = [NoOut EXCEPT !.op = "has_band", !.band = band,
                              !.ret = IF has_band(heap, 1, band) THEN 1 ELSE 0]
    /\ UNCHANGED <<heap, regs, last, lastSet, ctor, catalog, loaded>>

Sefd ==
    /\ \E band \in Bands :
         LET res == sefd(heap, 1, band)
         IN  out' = [NoOut EXCEPT !.op = "sefd", !.band = band, !.exc = res.exc,
                                  !.ret = res.ret]
    /\ UNCHANGED <<heap, regs, last, lastSet, ctor, catalog, loaded>>

NextStation == IsVisible \/ BandsQuery \/ HasBand \/ Sefd

SpecStation == InitStation /\ [][NextStation]_vars

(***************************************************************************)
(* Loading a catalog file                                                  *)
(***************************************************************************)
\* option names as configparser hands them over (lower case), split at the
\* SEFD marker: the name is pre \o label
SefdOption(label, value) == [pre |-> "sefd_", label |-> label, value |-> value]

OtherOption(label) == [pre |-> "", label |-> label, value |-> 0]

\* 'SEFD_' in akey.upper()
IsSefdKey(opt) == opt.pre = "sefd_"

\* akey.upper().replace('SEFD_', '').strip() followed by "cm"
BandOfKey(opt) == opt.label \o "cm"

RECURSIVE sefds_of_options(_, _)
sefds_of_options(opts, d) ==
    IF opts = <<>> THEN d
    ELSE sefds_of_options(Tail(opts),
             IF IsSefdKey(Head(opts))
             THEN DictSet(d, BandOfKey(Head(opts)), Head(opts).value)
             ELSE d)

\* variant: the section name is passed as the codename
new_station_namecode(stationname, sec) ==
    SelectedStation_init(stationname, stationname, sec.network,
                         sefds_of_options(sec.options, <<>>),
                         Deg(sec.min_elevation), sec.station,
                         sec.possible_networks, sec.country, sec.diameter,
                         sec.real_time = "yes", TRUE)

\* the SelectedStation built from one section
new_station(stationname, sec) ==
    SelectedStation_init(stationname, sec.code, sec.network,
                         sefds_of_options(sec.options, <<>>),
                         Deg(sec.min_elevation), sec.station,
                         sec.possible_networks, sec.country, sec.diameter,
                         sec.real_time = "yes", TRUE)

\* the loop over config.sections(): st is [heap, reg]
RECURSIVE configfile_loop(_, _)
configfile_loop(secs, st) ==
    IF secs = <<>> THEN st
    ELSE LET h2 == Append(st.heap, new_station(Head(secs).name, Head(secs)))
         IN  configfile_loop(Tail(secs),
                 [heap |-> h2, reg |-> add(h2, st.reg, Len(h2)).reg])

get_stations_from_configfile(h, secs) ==
    configfile_loop(secs, [heap |-> h, reg |-> Stations_init(h, "network", <<>>).reg])

SectionNames == {"EFLSBERG", "WSTRBORK", "ONSALA60", "MEDICINA"}

\* well-formed section contents
SectionBodies ==
    { [code |-> "Ef", station |-> "Effelsberg", network |-> "EVN",
       possible_networks |-> "EVN, e-EVN", country |-> "Germany",
       diameter |-> "100 m", min_elevation |-> 9, real_time |-> "yes",
       options |-> << SefdOption("21", 20), SefdOption("18", 19),
                      OtherOption("img") >>],
      [code |-> "Ef", station |-> "Effelsberg old", network |-> "EVN",
       possible_networks |-> "EVN", country |-> "Germany",
       diameter |-> "100 m", min_elevation |-> 20, real_time |-> "no",
       options |-> << SefdOption("21", 25) >>],
      [code |-> "Wb", station |-> "Westerbork", network |-> "EVN",
       possible_networks |-> "EVN, e-EVN", country |-> "Netherlands",
       diameter |-> "25 m", min_elevation |-> 10, real_time |-> "yes",
       options |-> << SefdOption("18", 40) >>],
      [code |-> "Wb", station |-> "Westerbork single dish", network |-> "EVN",
       possible_networks |-> "EVN", country |-> "Netherlands",
       diameter |-> "25 m", min_elevation |-> 10, real_time |-> "no",
       options |-> << >>],
      [code |-> "On", station |-> "Onsala", network |-> "EVN",
       possible_networks |-> "EVN, e-EVN", country |-> "Sweden",
       diameter |-> "20 m", min_elevation |-> 20, real_time |-> "yes",
       options |-> << OtherOption("link"), SefdOption("21", 320) >>] }

Section(n, b) == [name |-> n] @@ b

\* configparser rejects a file that repeats a section name
Catalogs ==
    {c \in SeqsUpTo({Section(n, b) : n \in SectionNames, b \in SectionBodies},
                    MaxSections) :
        \A i, j \in 1..Len(c) : i # j => c[i].name # c[j].name}

InitCatalog ==
    /\ catalog \in Catalogs
    /\ heap = <<>>
    /\ regs = [r \in Reg |-> NoReg]
    /\ last = NoLast
    /\ lastSet = NoSet
    /\ ctor = NoCtor
    /\ out = NoOut
    /\ loaded = NoLoad

Load ==
    /\ ~loaded.done
    /\ LET res == get_stations_from_configfile(heap, catalog)
       IN  /\ heap' = res.heap
           /\ loaded' = [done |-> TRUE, exc |-> "none", reg |-> res.reg]
    /\ UNCHANGED <<regs, last, lastSet, ctor, out, catalog>>

NextCatalog == Load

SpecCatalog == InitCatalog /\ [][NextCatalog]_vars

(***************************************************************************)
(* Properties                                                              *)
(***************************************************************************)
LookupErrors == {"IndexError", "KeyError"}

\* C1: stations_with_band(b) returns a new registry, named "Stations@<b>"
\* unless an output name is given, whose stations are exactly the stations
\* of R that have band b, in R's order, and R is unchanged.
C1_StationsWithBandSubset ==
    last.op = "stations_with_band" =>
        LET R   == stations(last.pre)
            res == stations(last.retreg)
            idx == {i \in 1..Len(R) : has_band(heap, R[i], last.band)}
        IN  /\ last.exc = "none"
            /\ last.retreg.exists
            /\ last.retreg.name = (IF last.outname = "None"
                                   THEN "Stations@" \o last.band ELSE last.outname)
            /\ Len(res) = Cardinality(idx)
            /\ \A i \in idx : \E j \in 1..Len(res) : res[j] = R[i]
            /\ \A j \in 1..Len(res) : \E i \in idx : res[j] = R[i]
            /\ \A j1, j2 \in 1..Len(res) : j1 < j2 =>
                   \E i1, i2 \in idx : i1 < i2 /\ R[i1] = res[j1] /\ R[i2] = res[j2]
            /\ regs[last.reg] = last.pre

\* C2: add(r) with a codename that is not present increases
\* number_of_stations by exactly 1 and makes the codename the last element
\* of keys(); with a codename that is present it does not raise and leaves
\* number_of_stations unchanged.
C2_AddCountAndLastKey ==
    last.op = "add" =>
        LET c    == codename(heap, last.obj)
            post == regs[last.reg]
        IN  IF ~contains(last.pre, c)
            THEN /\ last.exc = "none"
                 /\ number_of_stations(post) = number_of_stations(last.pre) + 1
                 /\ Len(keys(post)) > 0
                 /\ keys(post)[Len(keys(post))] = c
            ELSE /\ last.exc = "none"
                 /\ number_of_stations(post) = number_of_stations(last.pre)

\* a new codename was added to a registry that already held a station
C2_Witness ==
    /\ last.op = "add"
    /\ ~contains(last.pre, codename(heap, last.obj))
    /\ number_of_stations(last.pre) = 1
    /\ number_of_stations(regs[last.reg]) = 2

\* C3: construction from a list in which two records share a codename
\* fails, and in every reachable state no two records held by a registry
\* have the same codename.
C3_CodenamesUnique ==
    /\ (last.op = "init_stations" /\
        \E i, j \in 1..Len(last.lst) :
            i # j /\ codename(heap, last.lst[i]) = codename(heap, last.lst[j]))
       => (last.exc = "AssertionError" /\ ~regs[last.reg].exists)
    /\ \A r \in Reg :
         regs[r].exists =>
            \A i, j \in 1..Len(stations(regs[r])) :
                stations(regs[r])[i] # stations(regs[r])[j] =>
                    codename(heap, stations(regs[r])[i]) #
                    codename(heap, stations(regs[r])[j])

\* C4: deletion by an integer index i with 0 <= i < n removes the entry
\* whose codename is keys()[i]: afterwards number_of_stations is n-1, the
\* codename is in neither the registry nor keys(), and the other codenames
\* keep their relative order.
C4_DeleteByIndex ==
    (last.op = "delitem" /\ last.key.isint /\ 0 <= last.key.i
        /\ last.key.i < number_of_stations(last.pre)) =>
        LET k    == keys(last.pre)[last.key.i + 1]
            post == regs[last.reg]
        IN  /\ last.exc = "none"
            /\ number_of_stations(post) = number_of_stations(last.pre) - 1
            /\ ~contains(post, k)
            /\ k \notin SeqToSet(keys(post))
            /\ keys(post) = SelectSeq(keys(last.pre), LAMBDA x : x # k)

\* C5: in every reachable state keys() is the tuple of the keys of the
\* registry's mapping in insertion order and has number_of_stations
\* elements; after a deletion by key the key is in neither the mapping nor
\* keys().
C5_KeysMatchMapping ==
    \A r \in Reg :
        regs[r].exists =>
            /\ Len(keys(regs[r])) = Len(regs[r].stations)
            /\ \A i \in 1..Len(regs[r].stations) :
                   keys(regs[r])[i] = regs[r].stations[i][1]
            /\ Len(keys(regs[r])) = number_of_stations(regs[r])
            /\ (last.op = "delitem" /\ last.reg = r /\ last.exc = "none") =>
                   /\ ~contains(regs[r], last.key.s)
                   /\ last.key.s \notin SeqToSet(keys(regs[r]))

\* a key was deleted from a registry of two stations
C5_Witness ==
    /\ last.op = "delitem"
    /\ last.exc = "none"
    /\ number_of_stations(last.pre) = 2
    /\ keys(regs[last.reg]) # keys(last.pre)
    /\ Len(keys(regs[last.reg])) = 1

\* C6 as stated: registry[i] returns the record stored under keys()[i] for
\* 0 <= i < number_of_stations and fails with a lookup error for every
\* other integer; registry[c] returns the record stored under c when c is
\* present and fails with a lookup error otherwise; a failing lookup leaves
\* the registry unchanged.
C6_IndexLookupOriginal ==
    last.op = "getitem" =>
        LET reg == regs[last.reg]
            n   == number_of_stations(reg)
        IN  /\ reg = last.pre
            /\ IF last.key.isint
               THEN IF 0 <= last.key.i /\ last.key.i < n
                    THEN /\ last.exc = "none"
                         /\ \E j \in 1..n :
                              reg.stations[j] = <<keys(reg)[last.key.i + 1], last.ret>>
                    ELSE last.exc \in LookupErrors
               ELSE IF contains(reg, last.key.s)
                    THEN /\ last.exc = "none"
                         /\ \E j \in 1..n : reg.stations[j] = <<last.key.s, last.ret>>
                    ELSE last.exc \in LookupErrors

\* C6 as amended: as above, except that an integer i with
\* -number_of_stations <= i < 0 counts from the end and returns the record
\* stored under keys()[number_of_stations + i]; only i >= number_of_stations
\* and i < -number_of_stations fail with a lookup error.
C6_IndexLookup ==
    last.op = "getitem" =>
        LET reg == regs[last.reg]
            n   == number_of_stations(reg)
        IN  /\ reg = last.pre
            /\ IF last.key.isint
               THEN IF 0 <= last.key.i /\ last.key.i < n
                    THEN /\ last.exc = "none"
                         /\ \E j \in 1..n :
                              reg.stations[j] = <<keys(reg)[last.key.i + 1], last.ret>>
                    ELSE IF -n <= last.key.i /\ last.key.i < 0
                    THEN /\ last.exc = "none"
                         /\ \E j \in 1..n :
                              reg.stations[j] =
                                  <<keys(reg)[n + last.key.i + 1], last.ret>>
                    ELSE last.exc \in LookupErrors
               ELSE IF contains(reg, last.key.s)
                    THEN /\ last.exc = "none"
                         /\ \E j \in 1..n : reg.stations[j] = <<last.key.s, last.ret>>
                    ELSE last.exc \in LookupErrors

\* registry[-1] on a registry of two stations returned the last one
C6_Witness ==
    /\ last.op = "getitem"
    /\ last.key.isint
    /\ last.key.i = -1
    /\ number_of_stations(regs[last.reg]) = 2
    /\ last.exc = "none"
    /\ last.ret = stations(regs[last.reg])[2]

\* C7 as stated: for every catalog of well-formed sections the loader
\* returns a registry named "network" with one station per section in file
\* order: number_of_stations is the number of sections and the i-th station
\* is built from the i-th section.
C7_OneStationPerSection ==
    loaded.done =>
        /\ loaded.exc = "none"
        /\ loaded.reg.name = "network"
        /\ number_of_stations(loaded.reg) = Len(catalog)
        /\ \A i \in 1..Len(catalog) :
             /\ i <= number_of_stations(loaded.reg)
             /\ codename(heap, stations(loaded.reg)[i]) = catalog[i].code
             /\ heap[stations(loaded.reg)[i]].fullname = catalog[i].station

\* C7 as amended: the registry is named "network" and holds one station per
\* distinct `code` value, ordered by the first section of each code, and the
\* station of a code is built from the last section with that code; so for a
\* catalog whose code values are pairwise distinct number_of_stations is the
\* number of sections and the i-th station is built from the i-th section.
C7_OneStationPerDistinctCode ==
    loaded.done =>
        LET reg   == loaded.reg
            n     == number_of_stations(reg)
            secs  == 1..Len(catalog)
            first(c) == CHOOSE i \in secs :
                           catalog[i].code = c /\
                           \A j \in secs : catalog[j].code = c => i <= j
            final(c) == CHOOSE i \in secs :
                           catalog[i].code = c /\
                           \A j \in secs : catalog[j].code = c => j <= i
        IN  /\ loaded.exc = "none"
            /\ reg.name = "network"
            /\ n = Cardinality({catalog[i].code : i \in secs})
            /\ Len(keys(reg)) = n
            /\ \A j \in 1..n : \E i \in secs : catalog[i].code = keys(reg)[j]
            /\ \A j1, j2 \in 1..n :
                 j1 < j2 => first(keys(reg)[j1]) < first(keys(reg)[j2])
            /\ \A j \in 1..n :
                 LET sec == catalog[final(keys(reg)[j])]
                     st  == heap[stations(reg)[j]]
                 IN  /\ st.codename = sec.code
                     /\ st.codename = keys(reg)[j]
                     /\ st.fullname = sec.station
                     /\ st.real_time = (sec.real_time = "yes")
                     /\ st.min_elev = Deg(sec.min_elevation)
            /\ (\A i, j \in secs : i # j => catalog[i].code # catalog[j].code) =>
                 /\ n = Len(catalog)
                 /\ \A i \in secs :
                      /\ codename(heap, stations(reg)[i]) = catalog[i].code
                      /\ heap[stations(reg)[i]].fullname = catalog[i].station

\* a catalog of three sections with three different codes was loaded
C7_Witness ==
    /\ loaded.done
    /\ Len(catalog) = 3
    /\ \A i, j \in 1..3 : i # j => catalog[i].code # catalog[j].code
    /\ number_of_stations(loaded.reg) = 3
    /\ keys(loaded.reg) = <<catalog[1].code, catalog[2].code, catalog[3].code>>

\* C8: is_visible returns exactly the (0-based) indices i with
\* elevation[i] >= min_elevation, each once, in ascending order.
C8_VisibleIndices ==
    out.op = "is_visible" =>
        /\ SeqToSet(out.seq) =
              {i \in 0..(Len(out.elevations) - 1) :
                  out.elevations[i + 1] >= ctor.min_elevation.val}
        /\ \A j1, j2 \in 1..Len(out.seq) : j1 < j2 => out.seq[j1] < out.seq[j2]

\* min_elevation 20 and elevations [10, 25, 30] select indices 1 and 2
C8_Witness ==
    /\ out.op = "is_visible"
    /\ ctor.min_elevation.val = 20
    /\ out.elevations = <<10, 25, 30>>
    /\ out.seq = <<1, 2>>

\* C9: has_band(b) is true iff b is a key of the SEFD mapping the station
\* was constructed with, bands() is that key set, sefd(b) returns the stored
\* value when b is a key and fails with a lookup error when it is not.
C9_BandsAndSefd ==
    LET fs    == ctor.freqs_sefds
        bkeys == {fs[i][1] : i \in 1..Len(fs)}
    IN  /\ out.op = "has_band" => (out.ret = 1 <=> out.band \in bkeys)
        /\ out.op = "bands" => (SeqToSet(out.seq) = bkeys /\ Len(out.seq) = Len(fs))
        /\ out.op = "sefd" =>
              IF out.band \in bkeys
              THEN /\ out.exc = "none"
                   /\ \E i \in 1..Len(fs) : fs[i] = <<out.band, out.ret>>
              ELSE out.exc \in LookupErrors

\* sefd of a band the station was not constructed with raised KeyError
C9_Witness ==
    /\ out.op = "sefd"
    /\ Len(ctor.freqs_sefds) = 2
    /\ out.band = "6cm"
    /\ out.exc = "KeyError"

\* C10: after `registry[key].selected = v` on a station, every registry
\* that holds the same station object reads v through it, whatever
\* add/assignment/lookup operations follow on either registry.
C10_SharedSelected ==
    lastSet.obj # 0 =>
        /\ \A r \in Reg : \A k \in Codes :
             (regs[r].exists /\ getitem(regs[r], StrKey(k)).exc = "none"
                /\ getitem(regs[r], StrKey(k)).ret = lastSet.obj)
             => selected(heap, getitem(regs[r], StrKey(k)).ret) = lastSet.val
        /\ (last.op = "getitem" /\ last.exc = "none" /\ last.ret = lastSet.obj)
             => selected(heap, last.ret) = lastSet.val

\* a station held by both registries was deselected through one of them
\* and then read through the other
C10_Witness ==
    /\ lastSet.obj # 0
    /\ lastSet.val = FALSE
    /\ last.op = "getitem"
    /\ last.reg # lastSet.reg
    /\ last.exc = "none"
    /\ last.ret = lastSet.obj
    /\ \E k \in Codes : /\ regs[lastSet.reg].exists
                        /\ getitem(regs[lastSet.reg], StrKey(k)).exc = "none"
                        /\ getitem(regs[lastSet.reg], StrKey(k)).ret = lastSet.obj
    /\ ~selected(heap, last.ret)

====
